---------------------------- MODULE Spec2Model ----------------------------
(***************************************************************************)
(* Streaming ingestion pipeline of buzzline-06: two consumer programs that *)
(* share one design.                                                       *)
(*   sentiment variant   consumers/consumer_josiah_randleman.py            *)
(*                       consumers/db_sqlite_josiah_randleman.py           *)
(*   transaction variant consumers/consumer_transactions_randleman.py      *)
(*                       consumers/sql_lite_config_randleman.py            *)
(* A behaviour follows one of the two programs (variable variant) over     *)
(* several runs of the process against the same SQLite file.  A state of   *)
(* the model is a committed state of the store: every `with                *)
(* sqlite3.connect(..) as conn` block is one transaction, which commits    *)
(* as a whole or is rolled back as a whole.                                *)
(*                                                                         *)
(* Values.  sentiment is counted in hundredths and amount in dollars, so   *)
(* both are integers; an average is the exact fraction <<num, den>> in     *)
(* lowest terms (SQLite's AVG is the float sum / count; rounding of the    *)
(* float result is not modelled).  Python None / SQL NULL is the value     *)
(* None; a key that the JSON payload does not carry is ABSENT.             *)
(***************************************************************************)
EXTENDS Integers, Sequences, FiniteSets, TLC

VARIABLES
    variant,    \* which consumer program this behaviour runs
    proc,       \* the process: "stopped" | "running"
    thread,     \* the consumer thread: "none" | "starting" | "consuming" |
                \* "raw" | "dead"
    consumed,   \* number of stream items the consumer iterator has yielded
    startedEmpty, \* whether every table was empty when this run's init_db ended
    sdb,        \* the SQLite file of the sentiment variant (committed state)
    tdb,        \* the SQLite file of the transaction variant (committed state)
    inflight,   \* transaction variant: the record between its two writes
    last,       \* the last operation, its input and what it handed back
    schema,     \* whether the store file exists and has the tables
    exit,       \* exit status of the process that ended last: <<>> or <<n>>
    cls,        \* the classifier applied to one record, apart from the loop
    conn,       \* insert_message's connection: its open transaction
    applied,    \* the store after each committed insert, oldest first
    view,       \* what the last query of the dashboard returned
    fetched,    \* fetch_data statement by statement: its three result sets
    stream,     \* the topic as a queue: records delivered, not yet consumed
    journal,    \* the committed writes of this run, oldest first
    calls    \* the store called on its own: what was inserted and deleted

\* The variables of the classifier on its own, and of insert_message taken
\* statement by statement beside the dashboard's queries.
asideVars == <<cls, conn, applied, view, fetched, stream, journal, calls>>

\* The variables of fetch_data taken statement by statement, of the topic as
\* a queue, and of the store functions called on their own.
laterVars == <<fetched, stream, journal, calls>>

\* The variables of the two consumer programs.
mainVars ==
    <<variant, proc, thread, consumed, startedEmpty, sdb, tdb, inflight,
      last, schema, exit>>

vars == <<mainVars, asideVars>>

---------------------------------------------------------------------------
(* Bounds of the model *)

\* Stream items delivered to the consumer, over all runs of a behaviour.
MaxItems == 3

---------------------------------------------------------------------------
(* Python values *)

None == "<None>"
ABSENT == "<absent>"

\* A JSON value in a numeric field.
Num(v) == [tag |-> "num", val |-> v]
\* a string that holds a number literal, such as "80"
NumStr(v) == [tag |-> "numstr", val |-> v]
\* a string that holds no number, such as "abc"
BadStr == [tag |-> "str", val |-> 0]
\* JSON null
NumNull == [tag |-> "null", val |-> 0]
\* the key is not in the payload
NumAbsent == [tag |-> "absent", val |-> 0]

\* dict.get(key): None when the key is missing.
Get(v) == IF v = ABSENT THEN None ELSE v

\* dict.get(key, default) on a text field.
GetD(v, d) == IF v = ABSENT THEN d ELSE v

\* dict.get(key, default) on a numeric field.
GetNumD(v, d) == IF v.tag = "absent" THEN Num(d) ELSE v

\* float(x) / int(x): the value, or ValueError / TypeError (ok = FALSE).
float(x) == IF x.tag \in {"num", "numstr"} THEN [ok |-> TRUE, val |-> x.val]
            ELSE [ok |-> FALSE, val |-> 0]

int(x) == IF x.tag \in {"num", "numstr"} THEN [ok |-> TRUE, val |-> x.val]
          ELSE [ok |-> FALSE, val |-> 0]

---------------------------------------------------------------------------
(* Exact fractions, for AVG *)

RECURSIVE Gcd(_, _)
Gcd(a, b) == IF b = 0 THEN a ELSE Gcd(b, a % b)

Abs(x) == IF x < 0 THEN -x ELSE x

Frac(n, d) ==
    LET g == Gcd(Abs(n), d)
    IN  IF g = 0 THEN <<0, 1>> ELSE <<n \div g, d \div g>>

RECURSIVE SumSentiment(_)
SumSentiment(rows) ==
    IF rows = <<>> THEN 0 ELSE Head(rows).sentiment + SumSentiment(Tail(rows))

\* SELECT AVG(sentiment) over rows; <<0, 0>> stands for the NULL that AVG
\* gives on no rows.
AVG(rows) ==
    IF rows = <<>> THEN <<0, 0>> ELSE Frac(SumSentiment(rows), Len(rows))

\* SQL's = in a WHERE clause and in a UNIQUE / PRIMARY KEY index: NULL equals
\* nothing, not even NULL.  A TEXT PRIMARY KEY column of an ordinary rowid
\* table accepts NULL.
SqlEq(a, b) == a # None /\ b # None /\ a = b

---------------------------------------------------------------------------
(* Sentiment variant: the store, db_sqlite_josiah_randleman.py *)

S_EmptyDb ==
    [streamed_messages |-> <<>>, sentiment_messages |-> <<>>,
     category_sentiment |-> <<>>, author_sentiment |-> <<>>,
     seq_streamed |-> 0, seq_sentiment |-> 0]

\* init_db: only streamed_messages is dropped (with its AUTOINCREMENT
\* counter); the three other tables are CREATE TABLE IF NOT EXISTS.
S_init_db(db) == [db EXCEPT !.streamed_messages = <<>>, !.seq_streamed = 0]

\* insert_message, the field extraction before the connection is opened.
S_Extract(pm) ==
    LET s == float(GetNumD(pm.sentiment, 0))
        l == int(GetNumD(pm.message_length, 0))
    IN  [ok |-> s.ok /\ l.ok,
         category |-> GetD(pm.category, "unknown"),
         author |-> GetD(pm.author, "anonymous"),
         sentiment |-> s.val,
         timestamp |-> GetD(pm.timestamp, "unknown"),
         message |-> GetD(pm.message, ""),
         keyword_mentioned |-> GetD(pm.keyword_mentioned, ""),
         message_length |-> l.val]

\* INSERT INTO streamed_messages
S_InsertRaw(db, x) ==
    [db EXCEPT !.seq_streamed = @ + 1,
               !.streamed_messages = Append(@,
                   [id |-> db.seq_streamed + 1, message |-> x.message,
                    author |-> x.author, timestamp |-> x.timestamp,
                    category |-> x.category, sentiment |-> x.sentiment,
                    keyword_mentioned |-> x.keyword_mentioned,
                    message_length |-> x.message_length])]

\* INSERT INTO sentiment_messages
S_InsertHistory(db, x) ==
    [db EXCEPT !.seq_sentiment = @ + 1,
               !.sentiment_messages = Append(@,
                   [id |-> db.seq_sentiment + 1, category |-> x.category,
                    author |-> x.author, sentiment |-> x.sentiment,
                    timestamp |-> x.timestamp])]

\* INSERT INTO category_sentiment .. ON CONFLICT(category) DO UPDATE SET
\* avg_sentiment = (SELECT AVG(sentiment) FROM sentiment_messages WHERE
\* category = ?)
S_UpsertCategory(db, x) ==
    LET t == db.category_sentiment
        SameKey(r) == SqlEq(r.category, x.category)
        avg == AVG(SelectSeq(db.sentiment_messages, SameKey))
    IN  IF \E i \in DOMAIN t : SameKey(t[i])
        THEN [db EXCEPT !.category_sentiment =
                 [i \in DOMAIN t |->
                     IF SameKey(t[i]) THEN [t[i] EXCEPT !.avg_sentiment = avg]
                     ELSE t[i]]]
        ELSE [db EXCEPT !.category_sentiment =
                 Append(t, [category |-> x.category,
                            avg_sentiment |-> Frac(x.sentiment, 1)])]

\* INSERT INTO author_sentiment .. ON CONFLICT(author) DO UPDATE ..
S_UpsertAuthor(db, x) ==
    LET t == db.author_sentiment
        SameKey(r) == SqlEq(r.author, x.author)
        avg == AVG(SelectSeq(db.sentiment_messages, SameKey))
    IN  IF \E i \in DOMAIN t : SameKey(t[i])
        THEN [db EXCEPT !.author_sentiment =
                 [i \in DOMAIN t |->
                     IF SameKey(t[i]) THEN [t[i] EXCEPT !.avg_sentiment = avg]
                     ELSE t[i]]]
        ELSE [db EXCEPT !.author_sentiment =
                 Append(t, [author |-> x.author,
                            avg_sentiment |-> Frac(x.sentiment, 1)])]

\* Where a store write can fail: one of the four statements, or the commit
\* ("none": it does not fail).
S_FailPoints == {"raw", "history", "category", "author", "commit"}

\* The failure points after the raw row went into streamed_messages.
S_AfterRaw == {"history", "category", "author", "commit"}

\* `with sqlite3.connect(db_path) as conn`: leaving the block by an exception
\* rolls the open transaction back, so the file keeps the state from before.
Rollback(before, reached) == before

\* What insert_message hands back: the except clause logs and falls off the
\* end of the function, which returns None with nothing raised.
InsertReturn(committed) ==
    [ret |-> None, raised |-> FALSE,
     log |-> IF committed THEN "info" ELSE "error"]

S_insert_message(db, pm, fail) ==
    LET x == S_Extract(pm)
        s1 == S_InsertRaw(db, x)
        s2 == S_InsertHistory(s1, x)
        s3 == S_UpsertCategory(s2, x)
        s4 == S_UpsertAuthor(s3, x)
        reached == CASE fail = "raw" -> db
                     [] fail = "history" -> s1
                     [] fail = "category" -> s2
                     [] fail = "author" -> s3
                     [] OTHER -> s4
        committed == x.ok /\ fail = "none"
    IN  [db |-> IF committed THEN s4
                ELSE IF ~x.ok THEN db
                ELSE Rollback(db, reached),
         committed |-> committed,
         out |-> InsertReturn(committed)]

---------------------------------------------------------------------------
(* Sentiment variant: the consumer, consumer_josiah_randleman.py *)

\* The payloads the stream may deliver: the category present or missing
\* (message, keyword_mentioned, timestamp and message_length come with the
\* category), the author present or missing beside a category, the sentiment
\* present or missing; and the complete payload with a numeric field that is
\* a numeric string, a string holding no number, or null.
S_Payload(c, a, s, l) ==
    [category |-> c, author |-> a, sentiment |-> s,
     message |-> IF c = ABSENT THEN ABSENT ELSE "hi",
     keyword_mentioned |-> IF c = ABSENT THEN ABSENT ELSE "meme",
     timestamp |-> IF c = ABSENT THEN ABSENT ELSE "2025-01-29 14:35:20",
     message_length |-> l]

S_Payloads ==
    { S_Payload(ABSENT, ABSENT, s, NumAbsent) : s \in {NumAbsent, Num(80)} }
    \cup { S_Payload("humor", a, s, Num(5)) :
              a \in {ABSENT, "Alice"}, s \in {NumAbsent, Num(80)} }
    \cup { S_Payload("humor", "Alice", s, Num(5)) :
              s \in {NumStr(80), BadStr, NumNull} }
    \cup { S_Payload("humor", "Alice", Num(80), BadStr) }

\* process_message, the dict it builds: ok = FALSE when float() or int()
\* raised.
S_Decode(m) ==
    LET s == float(GetNumD(m.sentiment, 0))
        l == int(GetNumD(m.message_length, 0))
    IN  [ok |-> s.ok /\ l.ok,
         pm |-> [message |-> Get(m.message), author |-> Get(m.author),
                 timestamp |-> Get(m.timestamp),
                 category |-> Get(m.category), sentiment |-> Num(s.val),
                 keyword_mentioned |-> Get(m.keyword_mentioned),
                 message_length |-> Num(l.val)]]

\* A process_message without its except clause.
S_EscapesUncaught(failed) == failed

\* process_message's `except Exception as e: logger.error(..)`: an exception
\* raised inside the try block does not leave the function.
S_Escapes(failed) == FALSE

NoOut == [ret |-> None, raised |-> FALSE, log |-> "none"]

S_process_message(db, m, fail) ==
    LET d == S_Decode(m)
        r == S_insert_message(db, d.pm, fail)
    IN  IF ~d.ok
        THEN [db |-> db, outcome |-> "decode_error", out |-> NoOut,
              log |-> "error", escaped |-> S_Escapes(TRUE)]
        ELSE [db |-> r.db,
              outcome |-> IF r.committed THEN "ok" ELSE "write_error",
              out |-> r.out,
              log |-> IF r.out.raised THEN "error" ELSE r.out.log,
              escaped |-> S_Escapes(r.out.raised)]

---------------------------------------------------------------------------
(* Transaction variant: the store, sql_lite_config_randleman.py *)

T_EmptyDb ==
    [transactions |-> <<>>, is_fraud |-> <<>>, legit_transactions |-> <<>>,
     seq_transactions |-> 0, seq_fraud |-> 0, seq_legit |-> 0]

\* init_db: DROP TABLE IF EXISTS of all three tables, then CREATE.
T_init_db(db) == T_EmptyDb

\* The tuple of values every INSERT of this variant binds.
T_Row(id, pm) ==
    [id |-> id, name |-> Get(pm.name), merchant |-> Get(pm.merchant),
     amount |-> float(GetNumD(pm.amount, 0)).val,
     purchase_location |-> int(GetNumD(pm.purchase_location, 0)).val,
     home_location |-> int(GetNumD(pm.home_location, 0)).val,
     type |-> Get(pm.type), timestamp |-> Get(pm.timestamp)]

\* Where a store write of this variant can fail ("none": it does not).
T_FailPoints == {"insert", "commit"}

\* insert_message: one INSERT INTO transactions, in its own connection.
T_insert_message(db, pm, fail) ==
    LET s1 == [db EXCEPT !.seq_transactions = @ + 1,
                         !.transactions =
                             Append(@, T_Row(db.seq_transactions + 1, pm))]
        committed == fail = "none"
    IN  [db |-> IF committed THEN s1
                ELSE Rollback(db, IF fail = "commit" THEN s1 ELSE db),
         committed |-> committed, out |-> InsertReturn(committed)]

\* insert_fraud: one INSERT INTO is_fraud, in its own connection.
T_insert_fraud(db, pm, fail) ==
    LET s1 == [db EXCEPT !.seq_fraud = @ + 1,
                         !.is_fraud = Append(@, T_Row(db.seq_fraud + 1, pm))]
        committed == fail = "none"
    IN  [db |-> IF committed THEN s1
                ELSE Rollback(db, IF fail = "commit" THEN s1 ELSE db),
         committed |-> committed, out |-> InsertReturn(committed)]

\* insert_legit_transaction as an unedited copy of insert_fraud.
T_insert_legit_CopyOfFraud(db, pm, fail) == T_insert_fraud(db, pm, fail)

\* insert_legit_transaction: one INSERT INTO legit_transactions, in its own
\* connection.
T_insert_legit_transaction(db, pm, fail) ==
    LET s1 == [db EXCEPT !.seq_legit = @ + 1,
                         !.legit_transactions =
                             Append(@, T_Row(db.seq_legit + 1, pm))]
        committed == fail = "none"
    IN  [db |-> IF committed THEN s1
                ELSE Rollback(db, IF fail = "commit" THEN s1 ELSE db),
         committed |-> committed, out |-> InsertReturn(committed)]

---------------------------------------------------------------------------
(* Transaction variant: the consumer, consumer_transactions_randleman.py *)

LargeAmount == 900
MismatchAmount == 500
RiskyMerchantAmount == 700
DebitAmount == 800

risky_merchants == {"Online Shopping", "Retail Store"}

\* Rule 3 with >= where the code has >.
is_fraudulent_AtThreshold(t) ==
    LET amount == t.amount.val
    IN  \/ amount > LargeAmount
        \/ t.purchase_location.val # t.home_location.val
               /\ amount > MismatchAmount
        \/ t.merchant \in risky_merchants /\ amount >= RiskyMerchantAmount
        \/ t.type = "Debit" /\ amount > DebitAmount

\* Rule 2 with the comparison of the amount turned round.
is_fraudulent_Reversed(t) ==
    LET amount == t.amount.val
    IN  \/ amount > LargeAmount
        \/ t.purchase_location.val # t.home_location.val
               /\ amount < MismatchAmount
        \/ t.merchant \in risky_merchants /\ amount > RiskyMerchantAmount
        \/ t.type = "Debit" /\ amount > DebitAmount

\* Rule 4 left out.
is_fraudulent_NoDebitRule(t) ==
    LET amount == t.amount.val
    IN  \/ amount > LargeAmount
        \/ t.purchase_location.val # t.home_location.val
               /\ amount > MismatchAmount
        \/ t.merchant \in risky_merchants /\ amount > RiskyMerchantAmount

\* is_fraudulent on a dict (on None, transaction.get raises).
is_fraudulent(t) ==
    LET amount == t.amount.val
    IN  \/ amount > LargeAmount
        \/ t.purchase_location.val # t.home_location.val
               /\ amount > MismatchAmount
        \/ t.merchant \in risky_merchants /\ amount > RiskyMerchantAmount
        \/ t.type = "Debit" /\ amount > DebitAmount

T_Payload(a, pl) ==
    [name |-> "Bob", merchant |-> "Grocery", amount |-> a,
     purchase_location |-> pl, home_location |-> Num(1),
     type |-> "Credit", timestamp |-> "2025-01-29 14:35:20"]

\* The payloads the stream may deliver: a purchase at home without an
\* amount, of 750 and of 950, a purchase of 750 away from home, and two
\* payloads with a field that cannot be converted.
T_Payloads ==
    { T_Payload(a, Num(1)) : a \in {NumAbsent, Num(750), Num(950), BadStr} }
    \cup { T_Payload(Num(750), pl) : pl \in {Num(2), NumNull} }

\* process_message: the dict, or None (ok = FALSE) when a conversion raised.
T_process_message(m) ==
    LET a == float(GetNumD(m.amount, 0))
        pl == int(GetNumD(m.purchase_location, 0))
        hl == int(GetNumD(m.home_location, 0))
    IN  [ok |-> a.ok /\ pl.ok /\ hl.ok,
         pm |-> [name |-> Get(m.name), merchant |-> Get(m.merchant),
                 amount |-> Num(a.val), purchase_location |-> Num(pl.val),
                 home_location |-> Num(hl.val), type |-> Get(m.type),
                 timestamp |-> Get(m.timestamp)]]

---------------------------------------------------------------------------
(* The two programs as state machines *)

NoRecord == "<none>"

\* No record has been handed to the classifier.
NoClass ==
    [item |-> NoRecord, txn |-> NoRecord, verdict |-> "none",
     below |-> [amount |-> 0, verdict |-> "none"]]

\* No transaction is open on insert_message's connection: pc is the
\* statement to execute next, work the store as the open transaction sees
\* it, pm the dict being inserted.
NoConn == [pc |-> "idle", work |-> S_EmptyDb, pm |-> NoRecord]

\* The dashboard has made no query: table is the table queried, rows what
\* came back, began the number of store states committed when the query
\* began, during the place of insert_message at that time.
NoView == [table |-> "none", rows |-> <<>>, began |-> 0, during |-> "idle"]

\* fetch_data has executed none of its SELECTs: pc is the SELECT to execute
\* next, the three result sets are as the statements returned them, and at
\* holds, for each, the number of store states committed when it was read.
NoFetch ==
    [pc |-> "sentiment", sentiment_data |-> <<>>, author_data |-> <<>>,
     category_data |-> <<>>, at |-> <<>>, log |-> "none"]

\* The topic before the producer has sent: delivered holds the payloads in
\* the order of their delivery, pending the places in delivered of those
\* that the consumer's iterator has not yielded, and taken the place of the
\* record that the loop body is working on.
NoStream == [delivered |-> <<>>, pending |-> <<>>, taken |-> 0]

\* No store function has been called: records holds the category, author
\* and sentiment of the record of every committed insert_message of this
\* run, oldest first (ABSENT where the payload had no such key), deleted the
\* ids that delete_message was called with, and id the last of them.
NoCalls == [records |-> <<>>, deleted |-> {}, id |-> 0]

\* What the last operation was (op), the stream item it worked on (item),
\* how it ended (outcome: "ok", "decode_error", "write_error",
\* "setup_error", "read_error", "plot_error"), where the operation was made
\* to fail (fail), what the store function handed back to its caller (out),
\* the severity of the last log record (log), whether an exception left the
\* loop body (escaped), the store before the operation (pre), whether item
\* is a redelivery of the item whose write just failed (retry), in the
\* transaction variant whether the partition write of the item committed
\* (part), the class of a startup failure (class), the argument of the
\* sys.exit the failure led to (code, <<>> when none was called), whether
\* the consumer thread was between the two writes of a record when the
\* process was interrupted (between), and what a dashboard poll got from
\* its queries (view).
NoLast ==
    [op |-> "none", item |-> NoRecord, outcome |-> "none", fail |-> "none",
     out |-> NoOut, log |-> "none", escaped |-> FALSE, pre |-> NoRecord,
     retry |-> FALSE, part |-> FALSE, class |-> "none", code |-> <<>>,
     between |-> FALSE, view |-> <<>>]

Init ==
    /\ variant \in {"sentiment", "transaction"}
    /\ proc = "stopped"
    /\ thread = "none"
    /\ consumed = 0
    /\ startedEmpty = TRUE
    /\ sdb = S_EmptyDb
    /\ tdb = T_EmptyDb
    /\ inflight = NoRecord
    /\ last = NoLast
    /\ schema = FALSE
    /\ exit = <<>>
    /\ cls = NoClass
    /\ conn = NoConn
    /\ applied = <<S_EmptyDb>>
    /\ view = NoView
    /\ fetched = NoFetch
    /\ stream = NoStream
    /\ journal = <<>>
    /\ calls = NoCalls

S_IsEmpty(db) ==
    /\ db.streamed_messages = <<>>
    /\ db.sentiment_messages = <<>>
    /\ db.category_sentiment = <<>>
    /\ db.author_sentiment = <<>>

T_IsEmpty(db) ==
    /\ db.transactions = <<>>
    /\ db.is_fraud = <<>>
    /\ db.legit_transactions = <<>>

\* The classes of startup failure: the configuration cannot be read, the
\* prior store file cannot be removed, init_db cannot create the schema,
\* the stream cannot be verified or reached, the topic is not available.
SetupClasses == {"config", "unlink", "schema", "stream", "topic"}

\* The argument of the sys.exit that the code writes after a failed startup
\* step (<<>>: it writes none).  The transaction consumer: 1, 2 and 3 in
\* main, 11 after verify_services and create_kafka_consumer, 13 after
\* is_topic_available.  The sentiment consumer: 1 after
\* create_kafka_consumer, and no other.
ExitArg(v, class) ==
    IF v = "transaction"
    THEN CASE class = "config" -> <<1>>
           [] class = "unlink" -> <<2>>
           [] class = "schema" -> <<3>>
           [] class = "stream" -> <<11>>
           [] class = "topic" -> <<13>>
    ELSE IF class = "stream" THEN <<1>> ELSE <<>>

\* A startup step that failed, as the last operation.
SetupError(op, class, code) ==
    [NoLast EXCEPT !.op = op, !.outcome = "setup_error", !.fail = class,
                   !.class = class, !.code = code, !.log = "error"]

\* consumer_josiah_randleman.main: the configuration is read, init_db
\* (DB_PATH) is called, the consumer thread is started and the main thread
\* enters update_dashboard (the file of an earlier run is not removed).  An
\* exception of the config functions is caught by main's `except Exception`,
\* which logs it; main returns and the interpreter ends with status 0.
\* init_db catches its own exception and logs it, and main goes on with
\* whatever tables the file has.
S_main ==
    /\ variant = "sentiment"
    /\ proc = "stopped"
    /\ \E fail \in {"none", "config", "schema"} :
          CASE fail = "config" ->
                 /\ exit' = <<0>>
                 /\ last' = SetupError("main", "config", <<>>)
                 /\ UNCHANGED <<proc, thread, sdb, startedEmpty, schema>>
            [] fail = "schema" ->
                 /\ proc' = "running"
                 /\ thread' = "starting"
                 /\ exit' = <<>>
                 /\ startedEmpty' = S_IsEmpty(sdb)
                 /\ last' = SetupError("main", "schema", <<>>)
                 /\ UNCHANGED <<sdb, schema>>
            [] OTHER ->
                 /\ sdb' = S_init_db(sdb)
                 /\ schema' = TRUE
                 /\ startedEmpty' = S_IsEmpty(sdb')
                 /\ proc' = "running"
                 /\ thread' = "starting"
                 /\ exit' = <<>>
                 /\ last' = [NoLast EXCEPT !.op = "init_db",
                                           !.outcome = "ok"]
    /\ UNCHANGED <<variant, consumed, tdb, inflight>>
    /\ UNCHANGED asideVars

\* The head of consume_messages_from_kafka, in the consumer thread:
\* create_kafka_consumer.  On its exception the thread logs and calls
\* sys.exit(1); SystemExit raised in a thread other than the main thread
\* ends that thread only.
S_connect ==
    /\ variant = "sentiment"
    /\ thread = "starting"
    /\ \E fail \in {"none", "stream"} :
          IF fail = "none"
          THEN /\ thread' = "consuming"
               /\ last' = [NoLast EXCEPT !.op = "connect", !.outcome = "ok"]
          ELSE /\ thread' = "dead"
               /\ last' = SetupError("connect", fail, ExitArg(variant, fail))
    /\ UNCHANGED <<variant, proc, consumed, startedEmpty, sdb, tdb, inflight,
                   schema, exit>>
    /\ UNCHANGED asideVars

\* One turn of `for message in consumer: process_message(message.value)`.
\* An exception that leaves process_message is caught by the loop's
\* `except Exception`, which calls sys.exit(1): the thread ends.  The stream
\* may deliver again the item whose write just failed.  Without the tables
\* the first statement of insert_message fails.
S_consume ==
    /\ variant = "sentiment"
    /\ thread = "consuming"
    /\ consumed < MaxItems
    /\ LET failedWrite == last.op = "process_message"
                              /\ last.outcome = "write_error"
           redelivered == IF failedWrite THEN {last.item} ELSE {}
       IN  \E p \in S_Payloads \cup redelivered :
           \E fail \in {"none"} \cup S_FailPoints :
              LET r == S_process_message(sdb, p, fail)
              IN  /\ r.outcome = "decode_error" => fail = "none"
                  /\ ~schema /\ r.outcome # "decode_error" => fail = "raw"
                  /\ sdb' = r.db
                  /\ thread' = IF r.escaped THEN "dead" ELSE "consuming"
                  /\ last' = [NoLast EXCEPT
                                 !.op = "process_message", !.item = p,
                                 !.outcome = r.outcome,
                                 !.fail = IF r.outcome = "write_error"
                                          THEN fail ELSE "none",
                                 !.out = r.out, !.log = r.log,
                                 !.escaped = r.escaped, !.pre = sdb,
                                 !.retry = failedWrite /\ p = last.item]
    /\ consumed' = consumed + 1
    /\ UNCHANGED <<variant, proc, startedEmpty, tdb, inflight, schema, exit>>
    /\ UNCHANGED asideVars

\* fetch_data: three SELECTs in one connection; on any exception the error
\* is logged and three empty lists are returned.  (The ORDER BY of the
\* queries is not modelled: a result is read as the set of its rows.)
S_fetch_data(db, fail) ==
    IF fail # "none"
    THEN [sentiment_data |-> <<>>, author_data |-> <<>>,
          category_data |-> <<>>, log |-> "error"]
    ELSE [sentiment_data |->
              [i \in DOMAIN db.sentiment_messages |->
                  <<db.sentiment_messages[i].timestamp,
                    db.sentiment_messages[i].sentiment>>],
          author_data |-> db.author_sentiment,
          category_data |-> db.category_sentiment, log |-> "none"]

\* A fetch_data that deletes the history rows it has read.
S_AfterFetchPruned(db) == [db EXCEPT !.sentiment_messages = <<>>]

\* The store file after the `with sqlite3.connect(DB_PATH) as conn` block of
\* fetch_data: its statements are SELECTs, and the commit at the end of the
\* block has nothing to write.
S_AfterFetch(db) == db

\* datetime.datetime.strptime(ts, "%Y-%m-%d %H:%M:%S") over the fetched
\* timestamps raises TypeError on None.
strptimeRaises(data) == \E i \in DOMAIN data : data[i][1] = None

\* One turn of update_dashboard's `while True`, in the main thread.  An
\* exception that leaves it is caught by main's `except Exception`; main
\* returns, and the process ends with status 0 and its daemon thread.
S_update_dashboard ==
    /\ variant = "sentiment"
    /\ proc = "running"
    /\ \E fail \in {"none", "query"} :
          LET r == S_fetch_data(sdb, fail)
              crashed == strptimeRaises(r.sentiment_data)
          IN  /\ ~schema => fail = "query"
              /\ proc' = IF crashed THEN "stopped" ELSE "running"
              /\ thread' = IF crashed THEN "none" ELSE thread
              /\ exit' = IF crashed THEN <<0>> ELSE exit
              /\ last' = [NoLast EXCEPT
                             !.op = "update_dashboard",
                             !.outcome = IF fail # "none" THEN "read_error"
                                         ELSE IF crashed THEN "plot_error"
                                         ELSE "ok",
                             !.fail = fail,
                             !.log = IF crashed THEN "error" ELSE r.log,
                             !.escaped = crashed,
                             !.view = <<r.sentiment_data, r.author_data,
                                        r.category_data>>]
    /\ sdb' = S_AfterFetch(sdb)
    /\ UNCHANGED <<variant, consumed, startedEmpty, tdb, inflight, schema>>
    /\ UNCHANGED asideVars

\* consumer_transactions_randleman.main, steps 1 to 4: the configuration is
\* read (sys.exit(1) on an exception), the prior database file is deleted
\* (sys.exit(2)), init_db creates the tables, the thread is started and the
\* main thread enters update_dashboard.  init_db catches its own exception
\* and logs it, so that main's sys.exit(3) is not reached and main goes on
\* without the tables.
T_unlink(db) == T_EmptyDb

T_main ==
    /\ variant = "transaction"
    /\ proc = "stopped"
    /\ \E fail \in {"none", "config", "unlink", "schema"} :
          CASE fail = "config" ->
                 /\ exit' = ExitArg(variant, "config")
                 /\ last' = SetupError("main", "config",
                                       ExitArg(variant, "config"))
                 /\ UNCHANGED <<proc, thread, tdb, startedEmpty, schema>>
            [] fail = "unlink" ->
                 /\ schema
                 /\ exit' = ExitArg(variant, "unlink")
                 /\ last' = SetupError("main", "unlink",
                                       ExitArg(variant, "unlink"))
                 /\ UNCHANGED <<proc, thread, tdb, startedEmpty, schema>>
            [] fail = "schema" ->
                 /\ tdb' = T_unlink(tdb)
                 /\ schema' = FALSE
                 /\ startedEmpty' = T_IsEmpty(tdb')
                 /\ proc' = "running"
                 /\ thread' = "starting"
                 /\ exit' = <<>>
                 /\ last' = SetupError("main", "schema", <<>>)
            [] OTHER ->
                 /\ tdb' = T_init_db(T_unlink(tdb))
                 /\ schema' = TRUE
                 /\ startedEmpty' = T_IsEmpty(tdb')
                 /\ proc' = "running"
                 /\ thread' = "starting"
                 /\ exit' = <<>>
                 /\ last' = [NoLast EXCEPT !.op = "init_db",
                                           !.outcome = "ok"]
    /\ UNCHANGED <<variant, consumed, sdb, inflight>>
    /\ UNCHANGED asideVars

\* Steps 1 to 3 of consume_messages_from_kafka, in the consumer thread:
\* verify_services and create_kafka_consumer (sys.exit(11) on an exception),
\* is_topic_available (sys.exit(13)).  SystemExit raised in a thread other
\* than the main thread ends that thread only.
T_connect ==
    /\ variant = "transaction"
    /\ thread = "starting"
    /\ \E fail \in {"none", "stream", "topic"} :
          IF fail = "none"
          THEN /\ thread' = "consuming"
               /\ last' = [NoLast EXCEPT !.op = "connect", !.outcome = "ok"]
          ELSE /\ thread' = "dead"
               /\ last' = SetupError("connect", fail, ExitArg(variant, fail))
    /\ UNCHANGED <<variant, proc, consumed, startedEmpty, sdb, tdb, inflight,
                   schema, exit>>
    /\ UNCHANGED asideVars

\* The loop body up to its first commit: process_message, is_fraudulent,
\* then insert_fraud or insert_legit_transaction.  When process_message
\* returned None, is_fraudulent(None) raises AttributeError before any
\* write; the loop's `except Exception` logs it and re-raises, which ends
\* the thread.  Without the tables the INSERT fails.
T_consume ==
    /\ variant = "transaction"
    /\ thread = "consuming"
    /\ consumed < MaxItems
    /\ \E p \in T_Payloads :
       \E fail \in {"none"} \cup T_FailPoints :
          LET d == T_process_message(p)
              fraud == is_fraudulent(d.pm)
              r == IF fraud THEN T_insert_fraud(tdb, d.pm, fail)
                   ELSE T_insert_legit_transaction(tdb, d.pm, fail)
          IN  IF ~d.ok
              THEN /\ fail = "none"
                   /\ tdb' = tdb
                   /\ thread' = "dead"
                   /\ inflight' = NoRecord
                   /\ last' = [NoLast EXCEPT
                                  !.op = "process_message", !.item = p,
                                  !.outcome = "decode_error",
                                  !.log = "error", !.escaped = TRUE,
                                  !.pre = tdb]
              ELSE /\ ~schema => fail = "insert"
                   /\ tdb' = r.db
                   /\ thread' = "raw"
                   /\ inflight' = [pm |-> d.pm, item |-> p, pre |-> tdb,
                                   part |-> r.committed]
                   /\ last' = [NoLast EXCEPT
                                  !.op = IF fraud THEN "insert_fraud"
                                         ELSE "insert_legit_transaction",
                                  !.item = p,
                                  !.outcome = IF r.committed THEN "ok"
                                              ELSE "write_error",
                                  !.fail = fail, !.out = r.out,
                                  !.log = r.out.log, !.pre = tdb,
                                  !.part = r.committed]
    /\ consumed' = consumed + 1
    /\ UNCHANGED <<variant, proc, startedEmpty, sdb, schema, exit>>
    /\ UNCHANGED asideVars

\* The rest of the loop body: `if processed_message:` holds for the dict,
\* and insert_message writes the raw row in a second connection.
T_store ==
    /\ variant = "transaction"
    /\ thread = "raw"
    /\ \E fail \in {"none"} \cup T_FailPoints :
          LET r == T_insert_message(tdb, inflight.pm, fail)
          IN  /\ ~schema => fail = "insert"
              /\ tdb' = r.db
              /\ last' = [NoLast EXCEPT
                             !.op = "insert_message", !.item = inflight.item,
                             !.outcome = IF r.committed THEN "ok"
                                         ELSE "write_error",
                             !.fail = fail, !.out = r.out, !.log = r.out.log,
                             !.pre = inflight.pre, !.part = inflight.part]
    /\ thread' = "consuming"
    /\ inflight' = NoRecord
    /\ UNCHANGED <<variant, proc, consumed, startedEmpty, sdb, schema, exit>>
    /\ UNCHANGED asideVars

\* <<timestamp, amount>> of the rows of a partition table.
T_TimeAmount(t) == [i \in DOMAIN t |-> <<t[i].timestamp, t[i].amount>>]

\* fetch_data: two SELECTs in one connection; on any exception the error is
\* logged and two empty lists are returned.
T_fetch_data(db, failed) ==
    IF failed
    THEN [fraud_data |-> <<>>, legit_data |-> <<>>, log |-> "error"]
    ELSE [fraud_data |-> T_TimeAmount(db.is_fraud),
          legit_data |-> T_TimeAmount(db.legit_transactions),
          log |-> "none"]

\* The store file after the two `with sqlite3.connect(DB_PATH) as conn`
\* blocks of a poll (fetch_data, top merchants): their statements are
\* SELECTs.
T_AfterFetch(db) == db

\* SELECT merchant, COUNT( * ) FROM is_fraud GROUP BY merchant, read as the
\* set of its rows.
T_top_merchants(db) ==
    { <<m, Cardinality({i \in DOMAIN db.is_fraud :
                            db.is_fraud[i].merchant = m})>> :
        m \in {db.is_fraud[i].merchant : i \in DOMAIN db.is_fraud} }

\* One turn of update_dashboard's `while True`, in the main thread:
\* fetch_data, the first plot, then the query of the top merchants, which
\* update_dashboard issues itself outside any try block.  An exception that
\* leaves update_dashboard is caught by main's `except Exception`; main
\* returns, and the process ends with status 0 and its daemon thread.
T_update_dashboard ==
    /\ variant = "transaction"
    /\ proc = "running"
    /\ \E failFetch \in BOOLEAN : \E failTop \in BOOLEAN :
          LET r == T_fetch_data(tdb, failFetch)
              plot == strptimeRaises(r.fraud_data)
                          \/ strptimeRaises(r.legit_data)
              crashed == plot \/ failTop
          IN  /\ ~schema => failFetch /\ failTop
              /\ proc' = IF crashed THEN "stopped" ELSE "running"
              /\ thread' = IF crashed THEN "none" ELSE thread
              /\ inflight' = IF crashed THEN NoRecord ELSE inflight
              /\ exit' = IF crashed THEN <<0>> ELSE exit
              /\ last' = [NoLast EXCEPT
                             !.op = "update_dashboard",
                             !.outcome = IF failFetch \/ (failTop /\ ~plot)
                                         THEN "read_error"
                                         ELSE IF plot THEN "plot_error"
                                         ELSE "ok",
                             !.fail = IF failFetch THEN "fetch_data"
                                      ELSE IF failTop /\ ~plot
                                      THEN "top_merchants" ELSE "none",
                             !.log = IF crashed THEN "error" ELSE r.log,
                             !.escaped = crashed,
                             !.view = IF crashed
                                      THEN <<r.fraud_data, r.legit_data>>
                                      ELSE <<r.fraud_data, r.legit_data,
                                             T_top_merchants(tdb)>>]
    /\ tdb' = T_AfterFetch(tdb)
    /\ UNCHANGED <<variant, consumed, startedEmpty, sdb, schema>>
    /\ UNCHANGED asideVars

\* KeyboardInterrupt in the main thread: main logs and returns, the process
\* ends with status 0 and takes its daemon consumer thread with it, wherever
\* that is.
Interrupt ==
    /\ proc = "running"
    /\ proc' = "stopped"
    /\ thread' = "none"
    /\ inflight' = NoRecord
    /\ exit' = <<0>>
    /\ last' = [NoLast EXCEPT !.op = "interrupt", !.log = "warning",
                              !.between = thread = "raw",
                              !.part = thread = "raw" /\ inflight.part]
    /\ UNCHANGED <<variant, consumed, startedEmpty, sdb, tdb, schema>>
    /\ UNCHANGED asideVars

Next ==
    \/ S_main \/ S_connect \/ S_consume \/ S_update_dashboard
    \/ T_main \/ T_connect \/ T_consume \/ T_store \/ T_update_dashboard
    \/ Interrupt

Spec == Init /\ [][Next]_vars

---------------------------------------------------------------------------
(* The classifier on its own: process_message and is_fraudulent applied to *)
(* one transaction, and again to the same transaction at a higher amount   *)

\* Amounts on, next to and between the thresholds of the rules.
Amounts == {0, 500, 501, 600, 700, 701, 750, 800, 801, 900, 901}

\* Payloads as the producer builds them: its merchant categories, a purchase
\* at home or away from home, both card types.
ClassifierPayloads ==
    { [name |-> "Bob", merchant |-> m, amount |-> Num(a),
       purchase_location |-> Num(pl), home_location |-> Num(1),
       type |-> ty, timestamp |-> "2025-01-29 14:35:20"] :
        m \in {"Grocery", "Restaurant", "Online Shopping", "Retail Store"},
        a \in Amounts, pl \in {1, 2}, ty \in {"Credit", "Debit"} }

\* The bool is_fraudulent returns, as the outcome the loop acts on.
Verdict(fraud) == IF fraud THEN "FRAUD" ELSE "LEGIT"

InitClassify ==
    /\ variant = "transaction"
    /\ proc = "stopped"
    /\ thread = "none"
    /\ consumed = 0
    /\ startedEmpty = TRUE
    /\ sdb = S_EmptyDb
    /\ tdb = T_EmptyDb
    /\ inflight = NoRecord
    /\ last = NoLast
    /\ schema = FALSE
    /\ exit = <<>>
    /\ cls \in {[NoClass EXCEPT !.item = p] : p \in ClassifierPayloads}
    /\ conn = NoConn
    /\ applied = <<S_EmptyDb>>
    /\ view = NoView
    /\ fetched = NoFetch
    /\ stream = NoStream
    /\ journal = <<>>
    /\ calls = NoCalls

\* processed_message = process_message(message.value);
\* is_fraud = is_fraudulent(processed_message)
Classify ==
    /\ cls.verdict = "none"
    /\ LET d == T_process_message(cls.item)
       IN  /\ d.ok
           /\ cls' = [cls EXCEPT !.txn = d.pm,
                                 !.verdict = Verdict(is_fraudulent(d.pm))]
    /\ UNCHANGED <<mainVars, conn, applied, view>>
    /\ UNCHANGED laterVars

\* The same merchant, locations and card type arrive with an amount that is
\* at least as high, and are classified in turn.
ClassifyHigher ==
    /\ cls.verdict # "none"
    /\ cls.below.verdict = "none"
    /\ \E a \in Amounts :
          /\ a >= cls.txn.amount.val
          /\ LET p == [cls.item EXCEPT !.amount = Num(a)]
                 d == T_process_message(p)
             IN  /\ d.ok
                 /\ cls' = [item |-> p, txn |-> d.pm,
                            verdict |-> Verdict(is_fraudulent(d.pm)),
                            below |-> [amount |-> cls.txn.amount.val,
                                       verdict |-> cls.verdict]]
    /\ UNCHANGED <<mainVars, conn, applied, view>>
    /\ UNCHANGED laterVars

NextClassify == Classify \/ ClassifyHigher

SpecClassify == InitClassify /\ [][NextClassify]_vars

---------------------------------------------------------------------------
(* Vocabulary of the properties *)

Rows(t) == {t[i] : i \in DOMAIN t}

\* The operations that work on one stream item.
ItemOps ==
    {"process_message", "insert_fraud", "insert_legit_transaction",
     "insert_message"}

\* The last operation called a store insert function, which returned.
InsertCalled ==
    last.op \in ItemOps /\ last.outcome \in {"ok", "write_error"}

\* A numeric field of a payload that float() and int() reject.
Rejected(v) == v.tag \in {"str", "null"}

\* The payload of the last operation has a numeric field that is present and
\* cannot be converted.
Uncoercible ==
    /\ last.op \in ItemOps
    /\ IF variant = "sentiment"
       THEN Rejected(last.item.sentiment)
               \/ Rejected(last.item.message_length)
       ELSE Rejected(last.item.amount)
               \/ Rejected(last.item.purchase_location)
               \/ Rejected(last.item.home_location)

\* The store of the running variant.
Store == IF variant = "sentiment" THEN sdb ELSE tdb

\* The mean of sentiment over the history rows with the given category
\* (author), an absent key being a key like any other.
MeanOfCategory(c) ==
    LET Same(r) == r.category = c
    IN  AVG(SelectSeq(sdb.sentiment_messages, Same))

MeanOfAuthor(a) ==
    LET Same(r) == r.author = a
    IN  AVG(SelectSeq(sdb.sentiment_messages, Same))

\* The aggregate tables hold, for the keys of history row x, the mean over
\* the history rows with that key, and nothing else under that key.
AggregatesAreMeans(x) ==
    /\ \E r \in Rows(sdb.category_sentiment) : r.category = x.category
    /\ \A r \in Rows(sdb.category_sentiment) :
          r.category = x.category
              => r.avg_sentiment = MeanOfCategory(x.category)
    /\ \E r \in Rows(sdb.author_sentiment) : r.author = x.author
    /\ \A r \in Rows(sdb.author_sentiment) :
          r.author = x.author => r.avg_sentiment = MeanOfAuthor(x.author)

LastHistoryRow == sdb.sentiment_messages[Len(sdb.sentiment_messages)]

LastRawRow == sdb.streamed_messages[Len(sdb.streamed_messages)]

\* A row without its id, and how often a table holds it.
RowData(r) == [r EXCEPT !.id = 0]

Count(t, v) == Cardinality({i \in DOMAIN t : RowData(t[i]) = v})

---------------------------------------------------------------------------
(* Properties *)

\* C1: sentiment variant, run started on an empty store: after every
\* successful insert_message the avg_sentiment stored for the inserted
\* record's category, and for its author, is the arithmetic mean of
\* sentiment over all records with that category (author) inserted so far.
C1_AggregateIsMean ==
    (/\ variant = "sentiment"
     /\ startedEmpty
     /\ last.op = "process_message"
     /\ last.outcome = "ok")
        => AggregatesAreMeans(LastHistoryRow)

\* C2: transaction variant: in every committed state of the store a
\* transaction is in the raw table transactions exactly when it is in
\* exactly one of is_fraud and legit_transactions.
C2_RawIffPartition ==
    variant = "transaction"
        => \A v \in {RowData(r) : r \in Rows(tdb.transactions)
                                    \cup Rows(tdb.is_fraud)
                                    \cup Rows(tdb.legit_transactions)} :
              Count(tdb.transactions, v)
                  = Count(tdb.is_fraud, v) + Count(tdb.legit_transactions, v)

\* C3: sentiment variant: an insert_message that fails at a statement after
\* the raw insert (or at the commit) changes none of the four tables, and
\* after a later retry of the same record the aggregates of its keys are the
\* means over the history rows.
C3_FailedInsertThenRetry ==
    variant = "sentiment" /\ last.op = "process_message"
        => /\ (last.outcome = "write_error" /\ last.fail \in S_AfterRaw)
                  => sdb = last.pre
           /\ (last.outcome = "ok" /\ last.retry)
                  => AggregatesAreMeans(LastHistoryRow)

\* C4: transaction variant: when the partition write or the raw write of a
\* transaction failed, neither is committed: the store is as it was before
\* the transaction was processed.
C4_BothWritesOrNone ==
    (/\ variant = "transaction"
     /\ last.op = "insert_message"
     /\ ~last.part \/ last.outcome = "write_error")
        => tdb = last.pre

\* C5: transaction variant: a decode, classification or store-write failure
\* of one item is logged, nothing is raised out of the loop body and the
\* consume loop goes on.
C5_FailureKeepsLoop ==
    (/\ variant = "transaction"
     /\ last.op \in ItemOps
     /\ last.outcome \in {"decode_error", "write_error"})
        => /\ last.log = "error"
           /\ ~last.escaped
           /\ thread \in {"consuming", "raw"}

\* C6: sentiment variant: after process_message has worked on an item,
\* with or without a decode or store-write failure, the failure is logged,
\* nothing left process_message and the consumer thread is still in its
\* loop, so the next item is passed to process_message.
C6_SentimentLoopSurvives ==
    (variant = "sentiment" /\ last.op = "process_message")
        => /\ ~last.escaped
           /\ thread = "consuming"
           /\ last.outcome # "ok" => last.log = "error"

\* C6 witness: an item was processed and stored after an earlier item of
\* the stream had failed.
C6_Witness ==
    /\ variant = "sentiment"
    /\ last.op = "process_message"
    /\ last.outcome = "ok"
    /\ consumed > Len(sdb.sentiment_messages)

\* What the caller of an insert function gets: the returned value and
\* whether an exception reached it.
HandedBack(out) == <<out.ret, out.raised>>

\* C7 as stated: what a failed insert hands back to its caller differs from
\* what a committed insert hands back.
C7_FailureDistinguishable ==
    (InsertCalled /\ last.outcome = "write_error")
        => HandedBack(last.out) # <<None, FALSE>>

\* What the code does where C7 fails: an insert function hands back None, with nothing raised,
\* whether the row was committed or the write failed; the two cases differ
\* only in the log, where the failure is an error record.
C7_FailureOnlyLogged ==
    InsertCalled
        => /\ HandedBack(last.out) = <<None, FALSE>>
           /\ last.out.log = "error" <=> last.outcome = "write_error"

\* A store insert has failed.
C7_Witness == InsertCalled /\ last.outcome = "write_error"

\* C8: in both variants init_db leaves every table of the schema empty,
\* whatever the store held before.
C8_InitDbEmpties ==
    last.op = "init_db"
        => IF variant = "sentiment" THEN S_IsEmpty(sdb) ELSE T_IsEmpty(tdb)

\* The documented default of a text field, where the payload lacks it.
Defaulted(v, d) == IF v = ABSENT THEN d ELSE v

\* C9: sentiment variant: a payload that lacks fields (its other fields
\* being well-formed) is decoded and stored, the stored row has the
\* documented default in each absent field, and the aggregate row credited
\* is the one under the default key.
C9_DefaultsStored ==
    (/\ variant = "sentiment"
     /\ last.op = "process_message"
     /\ ~Uncoercible
     /\ last.outcome # "write_error")
        => /\ last.outcome = "ok"
           /\ LastRawRow.category = Defaulted(last.item.category, "unknown")
           /\ LastRawRow.author = Defaulted(last.item.author, "anonymous")
           /\ LastRawRow.message = Defaulted(last.item.message, "")
           /\ LastRawRow.keyword_mentioned
                  = Defaulted(last.item.keyword_mentioned, "")
           /\ last.item.sentiment = NumAbsent => LastRawRow.sentiment = 0
           /\ last.item.message_length = NumAbsent
                  => LastRawRow.message_length = 0
           /\ \E r \in Rows(sdb.category_sentiment) :
                  r.category = Defaulted(last.item.category, "unknown")
           /\ \E r \in Rows(sdb.author_sentiment) :
                  r.author = Defaulted(last.item.author, "anonymous")

\* C10 as stated: a payload with a numeric field that cannot be converted
\* is not dropped: it is classified and handed to the store.
C10_UncoercibleStillStored ==
    Uncoercible => last.outcome \in {"ok", "write_error"}

\* What the code does where C10 fails: in both variants such a payload is dropped: process_message
\* logs an error and no row for it is written to any table.
C10_UncoercibleDropped ==
    Uncoercible
        => /\ last.op = "process_message"
           /\ last.outcome = "decode_error"
           /\ last.log = "error"
           /\ Store = last.pre

\* The transaction consumer has met a payload whose amount or
\* location cannot be converted.
C10_Witness == variant = "transaction" /\ Uncoercible

---------------------------------------------------------------------------
(* insert_message statement by statement, beside the dashboard's queries:  *)
(* the sentiment consumer after its startup, on a new store file           *)

\* The payloads of this part: one author with and without a sentiment, a
\* payload without author, and one that does not decode.
ReadPayloads ==
    { S_Payload("humor", "Alice", s, Num(5)) : s \in {NumAbsent, Num(80)} }
    \cup { S_Payload("humor", ABSENT, Num(80), Num(5)),
           S_Payload("humor", "Alice", BadStr, Num(5)) }

\* A connection that reads a store which another connection has an open
\* transaction on, with uncommitted changes in sight.
VisibleUncommitted(committed, open) ==
    IF open.pc = "idle" THEN committed ELSE open.work

\* What a connection of fetch_data reads while insert_message's connection
\* has a transaction open: the committed state of the file.  (sqlite3 opens
\* the transaction before the first INSERT and holds every change of the
\* `with` block in it until conn.commit().)
Visible(committed, open) == committed

InitRead ==
    /\ variant = "sentiment"
    /\ proc = "running"
    /\ thread = "consuming"
    /\ consumed = 0
    /\ startedEmpty = TRUE
    /\ sdb = S_init_db(S_EmptyDb)
    /\ tdb = T_EmptyDb
    /\ inflight = NoRecord
    /\ last = NoLast
    /\ schema = TRUE
    /\ exit = <<>>
    /\ cls = NoClass
    /\ conn = NoConn
    /\ applied = <<sdb>>
    /\ view = NoView
    /\ fetched = NoFetch
    /\ stream = NoStream
    /\ journal = <<>>
    /\ calls = NoCalls

\* process_message up to the `with sqlite3.connect(db_path) as conn` of
\* insert_message.  A message that does not decode is logged and dropped.
R_begin ==
    /\ conn.pc = "idle"
    /\ consumed < MaxItems
    /\ \E p \in ReadPayloads :
          LET d == S_Decode(p)
          IN  conn' = IF d.ok THEN [pc |-> "raw", work |-> sdb, pm |-> d.pm]
                      ELSE NoConn
    /\ consumed' = consumed + 1
    /\ UNCHANGED <<variant, proc, thread, startedEmpty, sdb, tdb, inflight,
                   last, schema, exit, cls, applied, view>>
    /\ UNCHANGED laterVars

\* The next cursor.execute of insert_message, inside the open transaction.
R_execute ==
    /\ conn.pc \in {"raw", "history", "category", "author"}
    /\ LET x == S_Extract(conn.pm)
       IN  conn' =
             CASE conn.pc = "raw" ->
                    [conn EXCEPT !.work = S_InsertRaw(@, x),
                                 !.pc = "history"]
               [] conn.pc = "history" ->
                    [conn EXCEPT !.work = S_InsertHistory(@, x),
                                 !.pc = "category"]
               [] conn.pc = "category" ->
                    [conn EXCEPT !.work = S_UpsertCategory(@, x),
                                 !.pc = "author"]
               [] conn.pc = "author" ->
                    [conn EXCEPT !.work = S_UpsertAuthor(@, x),
                                 !.pc = "commit"]
    /\ UNCHANGED <<mainVars, cls, applied, view>>
    /\ UNCHANGED laterVars

\* conn.commit(): the changes of the transaction reach the file.  applied
\* grows by the store that insert_message as a whole makes of the store of
\* the records committed so far.
R_commit ==
    /\ conn.pc = "commit"
    /\ sdb' = conn.work
    /\ applied' = Append(applied,
                         S_insert_message(applied[Len(applied)], conn.pm,
                                          "none").db)
    /\ conn' = NoConn
    /\ UNCHANGED <<variant, proc, thread, consumed, startedEmpty, tdb,
                   inflight, last, schema, exit, cls, view>>
    /\ UNCHANGED laterVars

\* The next statement, or the commit, raises: the `with` block rolls the
\* transaction back and insert_message logs the error.
R_rollback ==
    /\ conn.pc # "idle"
    /\ sdb' = Rollback(sdb, conn.work)
    /\ conn' = NoConn
    /\ UNCHANGED <<variant, proc, thread, consumed, startedEmpty, tdb,
                   inflight, last, schema, exit, cls, applied, view>>
    /\ UNCHANGED laterVars

\* One SELECT of fetch_data, in the dashboard's own connection.
R_query ==
    /\ \E t \in {"author_sentiment", "category_sentiment"} :
          view' = [table |-> t, rows |-> Visible(sdb, conn)[t],
                   began |-> Len(applied), during |-> conn.pc]
    /\ UNCHANGED <<mainVars, cls, conn, applied>>
    /\ UNCHANGED laterVars

NextRead == R_begin \/ R_execute \/ R_commit \/ R_rollback \/ R_query

SpecRead == InitRead /\ [][NextRead]_vars

---------------------------------------------------------------------------
(* fetch_data statement by statement, beside insert_message *)

\* The next cursor.execute(SELECT ..) and fetchall() of fetch_data.  The
\* connection is opened with sqlite3's default isolation level, under which
\* no BEGIN is issued before a SELECT: each of the three statements is a
\* read of its own on the file as committed at that moment.
F_select ==
    /\ fetched.pc # "done"
    /\ LET r == S_fetch_data(Visible(sdb, conn), "none")
           at == Append(fetched.at, Len(applied))
       IN  fetched' =
             CASE fetched.pc = "sentiment" ->
                    [fetched EXCEPT !.sentiment_data = r.sentiment_data,
                                    !.at = at, !.pc = "author"]
               [] fetched.pc = "author" ->
                    [fetched EXCEPT !.author_data = r.author_data,
                                    !.at = at, !.pc = "category"]
               [] fetched.pc = "category" ->
                    [fetched EXCEPT !.category_data = r.category_data,
                                    !.at = at, !.pc = "done"]
    /\ UNCHANGED <<mainVars, cls, conn, applied, view>>
    /\ UNCHANGED <<stream, journal, calls>>

\* A statement of fetch_data raises (database is locked): the except clause
\* logs the error and three empty lists are returned.
F_fail ==
    /\ fetched.pc # "done"
    /\ LET r == S_fetch_data(Visible(sdb, conn), "query")
       IN  fetched' = [pc |-> "done", sentiment_data |-> r.sentiment_data,
                       author_data |-> r.author_data,
                       category_data |-> r.category_data,
                       at |-> <<>>, log |-> r.log]
    /\ UNCHANGED <<mainVars, cls, conn, applied, view>>
    /\ UNCHANGED <<stream, journal, calls>>

\* fetch_data has returned; update_dashboard draws, sleeps and calls it
\* again.
F_return ==
    /\ fetched.pc = "done"
    /\ fetched' = NoFetch
    /\ UNCHANGED <<mainVars, cls, conn, applied, view>>
    /\ UNCHANGED <<stream, journal, calls>>

NextFetch ==
    \/ R_begin \/ R_execute \/ R_commit \/ R_rollback
    \/ F_select \/ F_fail \/ F_return

SpecFetch == InitRead /\ [][NextFetch]_vars

---------------------------------------------------------------------------
(* The topic as a queue in front of the consume loop of either program,    *)
(* after its startup, with the store working; the dashboard is left out    *)

\* The payloads of this part, for the sentiment consumer: a complete
\* message, one without any key, and one that does not decode.
StreamPayloadsS ==
    { S_Payload("humor", "Alice", Num(80), Num(5)),
      S_Payload(ABSENT, ABSENT, NumAbsent, NumAbsent),
      S_Payload("humor", "Alice", BadStr, Num(5)) }

\* For the transaction consumer: a purchase of 750 and one of 950 at home,
\* and one whose amount cannot be converted.
StreamPayloadsT ==
    { T_Payload(a, Num(1)) : a \in {Num(750), Num(950), BadStr} }

InitStream ==
    /\ variant \in {"sentiment", "transaction"}
    /\ proc = "running"
    /\ thread = "consuming"
    /\ consumed = 0
    /\ startedEmpty = TRUE
    /\ sdb = S_init_db(S_EmptyDb)
    /\ tdb = T_init_db(T_EmptyDb)
    /\ inflight = NoRecord
    /\ last = NoLast
    /\ schema = TRUE
    /\ exit = <<>>
    /\ cls = NoClass
    /\ conn = NoConn
    /\ applied = <<S_EmptyDb>>
    /\ view = NoView
    /\ fetched = NoFetch
    /\ stream = NoStream
    /\ journal = <<>>
    /\ calls = NoCalls

\* The producer sends a message and the broker appends it to the topic.
Deliver ==
    /\ Len(stream.delivered) < MaxItems
    /\ \E p \in IF variant = "sentiment" THEN StreamPayloadsS
                 ELSE StreamPayloadsT :
          stream' = [stream EXCEPT
                        !.delivered = Append(@, p),
                        !.pending = Append(@, Len(stream.delivered) + 1)]
    /\ UNCHANGED <<mainVars, cls, conn, applied, view, fetched, journal,
                   calls>>

\* An iterator that yields the newest message of the topic first.
TakeNewest(pending) == Len(pending)

\* `for message in consumer`: the iterator yields the messages of the topic
\* in the order of their delivery, the oldest pending one next.
TakeNext(pending) == 1

\* The pending places without the one at position k.
Without(pending, k) ==
    [i \in 1..(Len(pending) - 1) |->
        IF i < k THEN pending[i] ELSE pending[i + 1]]

\* One turn of the sentiment consumer's loop on the message yielded:
\* process_message, which decodes and calls insert_message (one
\* transaction for the raw row, the history row and both aggregates).
QS_consume ==
    /\ variant = "sentiment"
    /\ thread = "consuming"
    /\ stream.pending # <<>>
    /\ LET k == TakeNext(stream.pending)
           n == stream.pending[k]
           p == stream.delivered[n]
           r == S_process_message(sdb, p, "none")
       IN  /\ sdb' = r.db
           /\ thread' = IF r.escaped THEN "dead" ELSE "consuming"
           /\ stream' = [stream EXCEPT !.pending = Without(@, k),
                                       !.taken = n]
           /\ journal' =
                 IF r.outcome = "ok"
                 THEN Append(journal, [n |-> n, table |-> "streamed_messages",
                                       id |-> r.db.seq_streamed])
                 ELSE journal
           /\ last' = [NoLast EXCEPT
                          !.op = "process_message",
                          !.outcome = r.outcome, !.out = r.out,
                          !.log = r.log, !.escaped = r.escaped]
    /\ UNCHANGED <<variant, proc, consumed, startedEmpty, tdb, inflight,
                   schema, exit>>
    /\ UNCHANGED <<cls, conn, applied, view, fetched, calls>>

\* One turn of the transaction consumer's loop up to its first commit:
\* process_message, is_fraudulent, then insert_fraud or
\* insert_legit_transaction.  is_fraudulent(None) raises, the loop's except
\* clause re-raises and the thread ends.
QT_consume ==
    /\ variant = "transaction"
    /\ thread = "consuming"
    /\ stream.pending # <<>>
    /\ LET k == TakeNext(stream.pending)
           n == stream.pending[k]
           p == stream.delivered[n]
           d == T_process_message(p)
           fraud == is_fraudulent(d.pm)
           r == IF fraud THEN T_insert_fraud(tdb, d.pm, "none")
                ELSE T_insert_legit_transaction(tdb, d.pm, "none")
       IN  /\ stream' = [stream EXCEPT !.pending = Without(@, k),
                                       !.taken = n]
           /\ IF ~d.ok
              THEN /\ tdb' = tdb
                   /\ thread' = "dead"
                   /\ journal' = journal
                   /\ last' = [NoLast EXCEPT
                                  !.op = "process_message",
                                  !.outcome = "decode_error",
                                  !.log = "error", !.escaped = TRUE]
              ELSE /\ tdb' = r.db
                   /\ thread' = "raw"
                   /\ journal' =
                         Append(journal,
                                IF fraud
                                THEN [n |-> n, table |-> "is_fraud",
                                      id |-> r.db.seq_fraud]
                                ELSE [n |-> n, table |-> "legit_transactions",
                                      id |-> r.db.seq_legit])
                   /\ last' = [NoLast EXCEPT
                                  !.op = IF fraud THEN "insert_fraud"
                                         ELSE "insert_legit_transaction",
                                  !.outcome = "ok",
                                  !.out = r.out, !.log = r.out.log,
                                  !.part = r.committed]
    /\ UNCHANGED <<variant, proc, consumed, startedEmpty, sdb, inflight,
                   schema, exit>>
    /\ UNCHANGED <<cls, conn, applied, view, fetched, calls>>

\* The rest of the loop body: insert_message writes the raw row of the
\* message that the loop body is working on.
QT_store ==
    /\ variant = "transaction"
    /\ thread = "raw"
    /\ LET d == T_process_message(stream.delivered[stream.taken])
           r == T_insert_message(tdb, d.pm, "none")
       IN  /\ tdb' = r.db
           /\ journal' = Append(journal,
                                [n |-> stream.taken, table |-> "transactions",
                                 id |-> r.db.seq_transactions])
           /\ last' = [NoLast EXCEPT
                          !.op = "insert_message", !.outcome = "ok",
                          !.out = r.out, !.log = r.out.log, !.part = TRUE]
    /\ thread' = "consuming"
    /\ UNCHANGED <<variant, proc, consumed, startedEmpty, sdb, inflight,
                   schema, exit>>
    /\ UNCHANGED <<cls, conn, applied, view, fetched, stream, calls>>

\* KeyboardInterrupt in the main thread: main logs and returns, and the
\* process ends with its daemon consumer thread, wherever that is.
Q_interrupt ==
    /\ proc = "running"
    /\ proc' = "stopped"
    /\ thread' = "none"
    /\ exit' = <<0>>
    /\ last' = [NoLast EXCEPT !.op = "interrupt", !.log = "warning",
                              !.between = thread = "raw",
                              !.part = thread = "raw"]
    /\ UNCHANGED <<variant, consumed, startedEmpty, sdb, tdb, inflight,
                   schema>>
    /\ UNCHANGED asideVars

NextStream ==
    Deliver \/ QS_consume \/ QT_consume \/ QT_store \/ Q_interrupt

SpecStream == InitStream /\ [][NextStream]_vars

\* A turn of either loop as the topic sees it: the thread is at the head of
\* the loop, a message is pending, and the iterator yields it.
Yield ==
    /\ thread = "consuming"
    /\ stream.pending # <<>>
    /\ stream' = [stream EXCEPT
                     !.pending = Without(@, TakeNext(stream.pending)),
                     !.taken = stream.pending[TakeNext(stream.pending)]]

\* The rest of the transaction loop's body as the thread sees it: it comes
\* back to the head of the loop.
Finish == thread = "raw" /\ thread' = "consuming"

\* The consumer thread runs whenever it can take a step: the iterator
\* yields a pending message, and the loop body is straight-line code.
SpecStreamFair ==
    /\ InitStream
    /\ [][NextStream]_vars
    /\ WF_stream(Yield)
    /\ WF_thread(Finish)

---------------------------------------------------------------------------
(* The store functions called one after another: inserts as the consumer   *)
(* makes them, and delete_message, on the store of one run                 *)

\* The payloads of this part: one category and author with and without a
\* sentiment, a payload without author, one without category and author,
\* and one that does not decode.
StorePayloads ==
    { S_Payload("humor", "Alice", s, Num(5)) : s \in {NumAbsent, Num(80)} }
    \cup { S_Payload("humor", ABSENT, Num(80), Num(5)),
           S_Payload(ABSENT, ABSENT, NumAbsent, NumAbsent),
           S_Payload("humor", "Alice", BadStr, Num(5)) }

\* Where delete_message can fail ("none": it does not).
DeleteFailPoints == {"delete", "commit"}

\* delete_message: DELETE FROM streamed_messages WHERE id = ?, then
\* conn.commit().  The AUTOINCREMENT counter of the table stays.  An
\* exception rolls back and is logged.
S_delete_message(db, message_id, fail) ==
    LET Other(r) == r.id # message_id
        s1 == [db EXCEPT !.streamed_messages = SelectSeq(@, Other)]
    IN  [db |-> IF fail = "none" THEN s1
                ELSE Rollback(db, IF fail = "commit" THEN s1 ELSE db),
         log |-> IF fail = "none" THEN "info" ELSE "error"]

\* process_message and insert_message on one payload.
A_insert ==
    /\ consumed < MaxItems
    /\ \E p \in StorePayloads :
       \E fail \in {"none"} \cup S_FailPoints :
          LET r == S_process_message(sdb, p, fail)
          IN  /\ r.outcome = "decode_error" => fail = "none"
              /\ sdb' = r.db
              /\ calls' =
                    IF r.outcome = "ok"
                    THEN [calls EXCEPT !.records = Append(@,
                             [category |-> p.category, author |-> p.author,
                              sentiment |->
                                  float(GetNumD(p.sentiment, 0)).val])]
                    ELSE calls
              /\ last' = [NoLast EXCEPT
                             !.op = "process_message", !.item = p,
                             !.outcome = r.outcome, !.out = r.out,
                             !.log = r.log, !.escaped = r.escaped]
    /\ consumed' = consumed + 1
    /\ UNCHANGED <<variant, proc, thread, startedEmpty, tdb, inflight,
                   schema, exit>>
    /\ UNCHANGED <<cls, conn, applied, view, fetched, stream, journal>>

\* delete_message(message_id, db_path), with an id that it was not called
\* with before.
A_delete ==
    /\ \E message_id \in (1..MaxItems) \ calls.deleted :
       \E fail \in {"none"} \cup DeleteFailPoints :
          LET r == S_delete_message(sdb, message_id, fail)
          IN  /\ sdb' = r.db
              /\ calls' = [calls EXCEPT !.deleted = @ \cup {message_id},
                                        !.id = message_id]
              /\ last' = [NoLast EXCEPT
                             !.op = "delete_message",
                             !.outcome = IF fail = "none" THEN "ok"
                                         ELSE "write_error",
                             !.fail = fail, !.log = r.log]
    /\ UNCHANGED <<variant, proc, thread, consumed, startedEmpty, tdb,
                   inflight, schema, exit>>
    /\ UNCHANGED <<cls, conn, applied, view, fetched, stream, journal>>

NextStore == A_insert \/ A_delete

SpecStore == InitRead /\ [][NextStore]_vars

---------------------------------------------------------------------------
(* C11 to C13: the fraud rules (checked under SpecClassify) *)

Classified == cls.verdict # "none"

\* The four rules as the specification lists them.
Rule1(t) == t.amount.val > 900
Rule2(t) == t.purchase_location.val # t.home_location.val
                /\ t.amount.val > 500
Rule3(t) == t.merchant \in {"Online Shopping", "Retail Store"}
                /\ t.amount.val > 700
Rule4(t) == t.type = "Debit" /\ t.amount.val > 800

\* C11: for every decoded transaction, is_fraudulent returns True exactly
\* when at least one of the four rules holds, and False otherwise.
C11_FraudIffSomeRule ==
    Classified =>
        (cls.verdict = "FRAUD"
            <=> Rule1(cls.txn) \/ Rule2(cls.txn) \/ Rule3(cls.txn)
                    \/ Rule4(cls.txn))

\* C11 witness: scenario 4 of the specification, a purchase of 750 at a
\* retail store, at home, by credit card, has been classified FRAUD.
C11_Witness ==
    /\ cls.verdict = "FRAUD"
    /\ cls.txn.amount.val = 750
    /\ cls.txn.merchant = "Retail Store"
    /\ cls.txn.purchase_location = cls.txn.home_location
    /\ cls.txn.type = "Credit"

\* A classification of the same combination at an amount not above the
\* present one has been made before.
ClassifiedBelow == cls.below.verdict # "none"

\* C12: with merchant, locations and card type fixed, a transaction that is
\* FRAUD at an amount is FRAUD at every amount at least as high.
C12_NoFlipInAmount ==
    ClassifiedBelow /\ cls.below.verdict = "FRAUD" => cls.verdict = "FRAUD"

\* C12 witness: FRAUD at a lower amount, then classified at a strictly
\* higher amount.
C12_Witness ==
    /\ ClassifiedBelow
    /\ cls.below.verdict = "FRAUD"
    /\ cls.txn.amount.val > cls.below.amount

Min(S) == CHOOSE x \in S : \A y \in S : x <= y

\* The least threshold among the rules whose condition on merchant,
\* locations or card type holds for t.
SmallestThreshold(t) ==
    Min({900}
        \cup (IF t.purchase_location.val # t.home_location.val
              THEN {500} ELSE {})
        \cup (IF t.merchant \in {"Online Shopping", "Retail Store"}
              THEN {700} ELSE {})
        \cup (IF t.type = "Debit" THEN {800} ELSE {}))

\* C13: every amount greater than or equal to the smallest triggering
\* threshold of the combination is classified FRAUD.
C13_FraudFromThreshold ==
    Classified /\ cls.txn.amount.val >= SmallestThreshold(cls.txn)
        => cls.verdict = "FRAUD"

\* C13 amended: every amount strictly greater than the smallest triggering
\* threshold of the combination is classified FRAUD.
C13_FraudAboveThreshold ==
    Classified /\ cls.txn.amount.val > SmallestThreshold(cls.txn)
        => cls.verdict = "FRAUD"

\* C13 witness: a debit purchase at home at a merchant that is not risky,
\* above 800 and not above 900, has been classified.
C13_Witness ==
    /\ Classified
    /\ cls.txn.type = "Debit"
    /\ cls.txn.merchant = "Grocery"
    /\ cls.txn.purchase_location = cls.txn.home_location
    /\ cls.txn.amount.val = 801

---------------------------------------------------------------------------
(* C14: the partition tables *)

\* A stored row as the dict it was written from.
RowAsRecord(r) ==
    [name |-> r.name, merchant |-> r.merchant, amount |-> Num(r.amount),
     purchase_location |-> Num(r.purchase_location),
     home_location |-> Num(r.home_location), type |-> r.type,
     timestamp |-> r.timestamp]

\* C14: in the transaction variant, after any sequence of consumed items,
\* every row of is_fraud is a record that is_fraudulent classifies True,
\* every row of legit_transactions one it classifies False, and no record
\* has a row in both tables.
C14_PartitionMatchesVerdict ==
    variant = "transaction" =>
        /\ \A r \in Rows(tdb.is_fraud) : is_fraudulent(RowAsRecord(r))
        /\ \A r \in Rows(tdb.legit_transactions) :
               ~is_fraudulent(RowAsRecord(r))
        /\ \A f \in Rows(tdb.is_fraud) :
           \A l \in Rows(tdb.legit_transactions) : RowData(f) # RowData(l)

\* C14 witness: both partitions hold a row.
C14_Witness ==
    /\ variant = "transaction"
    /\ tdb.is_fraud # <<>>
    /\ tdb.legit_transactions # <<>>

---------------------------------------------------------------------------
(* C15 to C17: failures at startup *)

\* A startup step has just failed.
StartupFailed == last.outcome = "setup_error"

\* The process has ended with a nonzero exit status.
EndedNonzero == proc = "stopped" /\ exit # <<>> /\ exit # <<0>>

\* C15: when establishing the inbound stream fails at startup (service
\* verification, creation of the consumer, or the topic), the process
\* terminates with the documented nonzero exit status and does not keep
\* running without ingestion.
C15_StreamFailureEndsProcess ==
    StartupFailed /\ last.class \in {"stream", "topic"}
        => EndedNonzero /\ exit = ExitArg(variant, last.class)

\* C16: when init_db fails to create the schema at process start, main
\* exits with the schema-initialization code (3 in the transaction
\* consumer) and starts neither the ingestion loop nor the dashboard.
C16_SchemaFailureIsFatal ==
    StartupFailed /\ last.class = "schema"
        => /\ EndedNonzero
           /\ thread = "none"
           /\ variant = "transaction" => exit = <<3>>

\* C17: each of the five classes of startup failure ends the consumer with
\* a nonzero exit code, and no other class ends it with the same code.
C17_DistinctNonzeroCodes ==
    StartupFailed
        => /\ EndedNonzero
           /\ \A d \in SetupClasses \ {last.class} :
                  ExitArg(variant, d) # exit

---------------------------------------------------------------------------
(* C18: read failures of the dashboard *)

\* C18: in both variants an error raised by a store query of a dashboard
\* poll is caught and logged, the poll gets empty result sets in place of
\* an exception, and update_dashboard goes on to its next poll.
C18_ReadFailureKeepsDashboard ==
    last.op = "update_dashboard" /\ last.outcome = "read_error"
        => /\ ~last.escaped
           /\ proc = "running"
           /\ last.log = "error"
           /\ last.fail \in {"query", "fetch_data"}
                  => \A i \in 1..(IF variant = "sentiment" THEN 3 ELSE 2) :
                         last.view[i] = <<>>

---------------------------------------------------------------------------
(* C19: interruption *)

\* C19: when the process is interrupted, the consumer thread is not between
\* two writes of one record, and the store does not credit a record with
\* its partition row alone.
C19_InterruptNotMidRecord ==
    last.op = "interrupt" => ~last.between /\ ~last.part

---------------------------------------------------------------------------
(* C20: what a query of the dashboard sees (checked under SpecRead) *)

\* C20: in the sentiment variant, with the ingestion thread and the
\* dashboard interleaved, the aggregate table a query returns is the one of
\* the store after some prefix of the committed inserts, a prefix that
\* holds every insert committed before the query began; no value of an
\* uncommitted or half-applied insert is seen.
C20_QuerySeesCommittedPrefix ==
    view.table # "none"
        => \E k \in view.began..Len(applied) :
               Rows(view.rows) = Rows(applied[k][view.table])

\* C20 witness: after a committed insert, a query was made while the next
\* insert had executed its upserts and had not committed, and the open
\* transaction had changed the table queried.
C20_Witness ==
    /\ view.table # "none"
    /\ view.began >= 2
    /\ view.during = "commit"
    /\ conn.pc = "commit"
    /\ Rows(conn.work[view.table]) # Rows(view.rows)

---------------------------------------------------------------------------
(* C22: the dashboard only reads *)

\* C22: a poll of the dashboard (fetch_data, update_dashboard), wherever it
\* falls between the steps of ingestion, leaves the contents of every table
\* as the ingestion side wrote them.
C22_PollLeavesStore ==
    [][last'.op = "update_dashboard" => sdb' = sdb /\ tdb' = tdb]_vars

\* C22 witness: a poll of the sentiment dashboard has read a store with
\* two history rows and returned them.
C22_Witness ==
    /\ variant = "sentiment"
    /\ last.op = "update_dashboard"
    /\ last.outcome = "ok"
    /\ Len(sdb.sentiment_messages) >= 2
    /\ Len(last.view[1]) >= 2

---------------------------------------------------------------------------
(* C26: the raw table and the history table side by side *)

\* The (category, author, sentiment, timestamp) values of a row.
KeyMetric(r) ==
    <<r.category, r.author, r.sentiment, r.timestamp>>

\* streamed_messages and sentiment_messages hold the same number of rows
\* with the same values in the same id order, and every category and author
\* of sentiment_messages has an aggregate row.
RawMirrorsHistory ==
    /\ Len(sdb.streamed_messages) = Len(sdb.sentiment_messages)
    /\ \A i \in DOMAIN sdb.streamed_messages :
          /\ i \in DOMAIN sdb.sentiment_messages
          /\ KeyMetric(sdb.streamed_messages[i])
                = KeyMetric(sdb.sentiment_messages[i])
    /\ \A i \in DOMAIN sdb.sentiment_messages :
          /\ \E j \in DOMAIN sdb.category_sentiment :
                sdb.category_sentiment[j].category
                    = sdb.sentiment_messages[i].category
          /\ \E j \in DOMAIN sdb.author_sentiment :
                sdb.author_sentiment[j].author
                    = sdb.sentiment_messages[i].author

\* C26: sentiment variant (no delete_message is called by the consumer): in
\* every committed store state of a run the raw table and the history table
\* hold the same rows in the same order, and every category and author of
\* the history has an aggregate row.
C26_RawMirrorsHistory ==
    variant = "sentiment" => RawMirrorsHistory

\* Where C26 holds: in a run that began on a store with no file left by an
\* earlier run.
C26_FirstRunMirrors ==
    (variant = "sentiment" /\ startedEmpty) => RawMirrorsHistory

\* A first run has stored two records.
C26_Witness ==
    /\ variant = "sentiment"
    /\ startedEmpty
    /\ Len(sdb.streamed_messages) >= 2

---------------------------------------------------------------------------
(* C24: the three result sets of one fetch_data (checked under SpecFetch) *)

\* fetch_data has returned its three result sets without an error.
Fetched == fetched.pc = "done" /\ fetched.log = "none"

\* The three result sets are those of the store after the first k - 1
\* committed inserts.
FetchedAt(k) ==
    LET r == S_fetch_data(applied[k], "none")
    IN  /\ fetched.sentiment_data = r.sentiment_data
        /\ fetched.author_data = r.author_data
        /\ fetched.category_data = r.category_data

\* C24: the three result sets that one call of fetch_data returns are a
\* snapshot: all three are those of the store after one and the same prefix
\* of the committed inserts.
C24_FetchIsSnapshot ==
    Fetched => \E k \in DOMAIN applied : FetchedAt(k)

\* What the code does where C24 fails: each result set by itself is the one
\* of the store as committed when its SELECT ran, and a later SELECT never
\* reads an older store than an earlier one.
C24_EachSelectIsCommitted ==
    Fetched
        => /\ fetched.sentiment_data
                 = S_fetch_data(applied[fetched.at[1]], "none").sentiment_data
           /\ fetched.author_data
                 = S_fetch_data(applied[fetched.at[2]], "none").author_data
           /\ fetched.category_data
                 = S_fetch_data(applied[fetched.at[3]], "none").category_data
           /\ fetched.at[1] <= fetched.at[2]
           /\ fetched.at[2] <= fetched.at[3]

\* An insert committed between the first and the second SELECT of one
\* fetch_data.
C24_Witness == Fetched /\ fetched.at[1] < fetched.at[2]

---------------------------------------------------------------------------
(* C23 and C25: delete_message and the aggregate rows (checked under       *)
(* SpecStore)                                                              *)

\* The record of the last committed insert, as the payload carried it.
LastRecord == calls.records[Len(calls.records)]

\* The records inserted so far whose raw row is gone: raw ids are given in
\* the order of the committed inserts.
DeletedRecords ==
    {i \in DOMAIN calls.records :
        \A r \in Rows(sdb.streamed_messages) : r.id # i}

\* The mean of sentiment over all records inserted so far, deleted or not,
\* with the category (author) of the last one; records without the key
\* share one key.
MeanOverCategory ==
    LET Same(r) == r.category = LastRecord.category
    IN  AVG(SelectSeq(calls.records, Same))

MeanOverAuthor ==
    LET Same(r) == r.author = LastRecord.author
    IN  AVG(SelectSeq(calls.records, Same))

\* The aggregate rows under the keys of the last history row hold the means
\* over all records inserted so far under these keys.
CategoryCountsAll ==
    /\ \E r \in Rows(sdb.category_sentiment) :
          r.category = LastHistoryRow.category
    /\ \A r \in Rows(sdb.category_sentiment) :
          r.category = LastHistoryRow.category
              => r.avg_sentiment = MeanOverCategory

AuthorCountsAll ==
    /\ \E r \in Rows(sdb.author_sentiment) :
          r.author = LastHistoryRow.author
    /\ \A r \in Rows(sdb.author_sentiment) :
          r.author = LastHistoryRow.author
              => r.avg_sentiment = MeanOverAuthor

\* An insert has committed after the raw row of an earlier record with the
\* same category (author) was deleted.
InsertedAfterDeleteOfCategory ==
    /\ last.op = "process_message"
    /\ last.outcome = "ok"
    /\ \E i \in DeletedRecords :
          i < Len(calls.records)
              /\ calls.records[i].category = LastRecord.category

InsertedAfterDeleteOfAuthor ==
    /\ last.op = "process_message"
    /\ last.outcome = "ok"
    /\ \E i \in DeletedRecords :
          i < Len(calls.records)
              /\ calls.records[i].author = LastRecord.author

\* C23, the frame of delete_message: a call removes at most the one row of
\* streamed_messages with the id given, and leaves sentiment_messages,
\* category_sentiment and author_sentiment as they were; an id that matches
\* no row changes nothing.
C23_DeleteRemovesOneRawRow ==
    [][last'.op = "delete_message"
          => /\ sdb'.sentiment_messages = sdb.sentiment_messages
             /\ sdb'.category_sentiment = sdb.category_sentiment
             /\ sdb'.author_sentiment = sdb.author_sentiment
             /\ Rows(sdb'.streamed_messages) \subseteq
                    Rows(sdb.streamed_messages)
             /\ \A r \in Rows(sdb.streamed_messages)
                         \ Rows(sdb'.streamed_messages) : r.id = calls'.id
             /\ Len(sdb.streamed_messages) - Len(sdb'.streamed_messages)
                    \in {0, 1}
             /\ (\A r \in Rows(sdb.streamed_messages) : r.id # calls'.id)
                    => sdb' = sdb]_vars

\* C23: sentiment variant: delete_message(id) removes at most the raw row
\* with that id and leaves the three other tables unchanged, and the
\* aggregates that a later insert writes for the key of a deleted record
\* still count the deleted record's sentiment: they are the means over all
\* records inserted under that key.
C23_AggregatesCountDeleted ==
    /\ InsertedAfterDeleteOfCategory => CategoryCountsAll
    /\ InsertedAfterDeleteOfAuthor => AuthorCountsAll

\* Where the second half of C23 holds: for the keys that the payloads
\* carry.
C23_PresentKeysCountDeleted ==
    /\ (InsertedAfterDeleteOfCategory /\ LastRecord.category # ABSENT)
          => CategoryCountsAll
    /\ (InsertedAfterDeleteOfAuthor /\ LastRecord.author # ABSENT)
          => AuthorCountsAll

\* A record with an author was deleted, and a later insert under the same
\* author, with another sentiment, has committed.
C23_Witness ==
    /\ InsertedAfterDeleteOfAuthor
    /\ LastRecord.author # ABSENT
    /\ \E i \in DeletedRecords :
          /\ calls.records[i].author = LastRecord.author
          /\ calls.records[i].sentiment # LastRecord.sentiment

\* The category (author) keys of the records inserted so far.
CategoryKeys == {calls.records[i].category : i \in DOMAIN calls.records}

AuthorKeys == {calls.records[i].author : i \in DOMAIN calls.records}

\* C25: sentiment variant, within one run, after any sequence of inserts
\* and deletes: category_sentiment holds exactly one row per distinct
\* category of the records inserted so far, and author_sentiment exactly
\* one row per distinct author, records without the key sharing one key.
C25_OneAggregateRowPerKey ==
    /\ Len(sdb.category_sentiment) = Cardinality(CategoryKeys)
    /\ Len(sdb.author_sentiment) = Cardinality(AuthorKeys)

\* Where C25 holds: one row for each key that a payload carried.
C25_OneRowPerPresentKey ==
    /\ \A k \in CategoryKeys \ {ABSENT} :
          Cardinality({i \in DOMAIN sdb.category_sentiment :
                          sdb.category_sentiment[i].category = k}) = 1
    /\ \A k \in AuthorKeys \ {ABSENT} :
          Cardinality({i \in DOMAIN sdb.author_sentiment :
                          sdb.author_sentiment[i].author = k}) = 1
    /\ \A r \in Rows(sdb.category_sentiment) :
          r.category # None => r.category \in CategoryKeys
    /\ \A r \in Rows(sdb.author_sentiment) :
          r.author # None => r.author \in AuthorKeys

\* The second half of C25: an aggregate row once created keeps its place
\* and its key, and is never removed.
C25_AggregateRowsStay ==
    [][/\ \A i \in DOMAIN sdb.category_sentiment :
             /\ i \in DOMAIN sdb'.category_sentiment
             /\ sdb'.category_sentiment[i].category
                    = sdb.category_sentiment[i].category
       /\ \A i \in DOMAIN sdb.author_sentiment :
             /\ i \in DOMAIN sdb'.author_sentiment
             /\ sdb'.author_sentiment[i].author
                    = sdb.author_sentiment[i].author]_vars

\* Two records without an author have been inserted.
C25_Witness ==
    Cardinality({i \in DOMAIN calls.records :
                    calls.records[i].author = ABSENT}) >= 2

---------------------------------------------------------------------------
(* C21 and C27: order and progress of ingestion (checked under SpecStream  *)
(* and SpecStreamFair)                                                     *)

\* The raw table of a variant.
RawTable == IF variant = "sentiment" THEN "streamed_messages"
            ELSE "transactions"

\* C21: in both variants records are stored in delivery order: of two
\* records stored, every write of the one delivered first is committed
\* before any write of the other, and its raw row has the smaller id.
C21_StoredInDeliveryOrder ==
    \A i, j \in DOMAIN journal :
        journal[i].n < journal[j].n
            => /\ i < j
               /\ (journal[i].table = RawTable /\ journal[j].table = RawTable)
                      => journal[i].id < journal[j].id

\* C21 witness: two records were delivered before the consumer took the
\* first, and both are stored, in the transaction variant with both their
\* writes.
C21_Witness ==
    /\ variant = "transaction"
    /\ Len(journal) >= 4
    /\ Len(stream.delivered) >= 2
    /\ last.op = "insert_message"
    /\ stream.taken = 2
    /\ \E i \in DOMAIN journal : journal[i].table = "is_fraud"

\* The message at place n of the topic has been delivered and decodes.
WellFormed(n) ==
    /\ n \in DOMAIN stream.delivered
    /\ IF variant = "sentiment" THEN S_Decode(stream.delivered[n]).ok
       ELSE T_process_message(stream.delivered[n]).ok

\* The record at place n is stored in full: its insert_message transaction
\* has committed (sentiment), its partition row and its raw row are both
\* committed (transaction).
StoredInFull(n) ==
    /\ \E i \in DOMAIN journal :
          journal[i].n = n /\ journal[i].table = RawTable
    /\ variant = "transaction"
          => \E i \in DOMAIN journal :
                journal[i].n = n
                    /\ journal[i].table \in {"is_fraud", "legit_transactions"}

\* The process was cancelled.
Cancelled == last.op = "interrupt"

\* C27: in both variants, under fair scheduling of the consumer thread and
\* with the store working, every well-formed record that the stream has
\* delivered is eventually stored in full, unless the process is cancelled.
C27_DeliveredIsStored ==
    \A n \in 1..MaxItems : WellFormed(n) ~> (StoredInFull(n) \/ Cancelled)

\* Where C27 holds: in the sentiment consumer.
C27_SentimentStoresAll ==
    \A n \in 1..MaxItems :
        (variant = "sentiment" /\ WellFormed(n))
            ~> (StoredInFull(n) \/ Cancelled)

\* C27 in a form that a finite run refutes: while the process runs, the
\* consumer thread has not ended with a well-formed record left in the
\* topic.
C27_ThreadOutlivesPending ==
    (proc = "running" /\ thread = "dead")
        => \A k \in DOMAIN stream.pending : ~WellFormed(stream.pending[k])

\* A well-formed record was delivered behind others and is stored in full.
C27_Witness ==
    /\ variant = "sentiment"
    /\ WellFormed(3)
    /\ StoredInFull(3)

=============================================================================
